---- MODULE Spec2Model ----
(***************************************************************************)
(* GC9A01A display driver (src/src/lib.rs): the driver object, the SPI bus *)
(* and the three output pins it owns, and the delay provider.  Every HAL   *)
(* call the driver makes (a pin drive, a bus write, a delay) is recorded   *)
(* as one event; every fallible HAL call may fail.                         *)
(*                                                                         *)
(* Events are records [k, v, d, ok]:                                       *)
(*   k  "cs" | "dc" | "rst" | "spi" | "delay"                              *)
(*   v  the level driven (0 = set_low, 1 = set_high), the milliseconds of  *)
(*      a delay; for a bus write 0 when the bytes are an opcode (the write *)
(*      of write_command) and 1 when they are data (the writes of          *)
(*      write_data and show)                                               *)
(*   d  the bytes handed to spi.write (<<>> otherwise)                     *)
(*   ok FALSE when the HAL call returned Err                               *)
(*   cs, dc  on a bus write, the levels the chip-select and data/command   *)
(*      pins were last driven to when the write happens (2 on the other    *)
(*      events, and for a pin never driven)                                *)
(***************************************************************************)
EXTENDS Integers, Sequences, FiniteSets, TLC

VARIABLES
    rgb,              \* GC9A01A.rgb
    dx, dy,           \* GC9A01A.dx, GC9A01A.dy (u16)
    width, height,    \* GC9A01A.width, GC9A01A.height (u32)
    overflow_checks,  \* build profile: integer overflow panics (TRUE) or wraps (FALSE)
    cs, dc, rst,      \* level each pin was last driven to successfully (2 = never driven)
    pc,               \* the caller: "idle" (between calls) or "done" (a call has ended)
    op,               \* the call that ended last, with its arguments
    ev,               \* the HAL events of that call, in order
    res               \* its outcome: "ok" = Ok(()), "err" = Err(()), "panic" = the call panicked

vars == <<rgb, dx, dy, width, height, overflow_checks, cs, dc, rst, pc, op, ev, res>>

(***************************************************************************)
(* Bounds of the model.                                                    *)
(***************************************************************************)
MaxWords == 33       \* longest word sequence handed to the word writers
MaxBuf == 8          \* bytes by which the longest buffer exceeds a full panel

U16 == 65536

(***************************************************************************)
(* Instruction opcodes used by the driver.                                 *)
(***************************************************************************)
SLPOUT == 17
DISPON == 41
CASET == 42
RASET == 43
RAMWR == 44
COLMOD == 58
MADCTL == 54

(***************************************************************************)
(* Orientation bit patterns.                                               *)
(***************************************************************************)
Portrait == 0
Landscape == 96
PortraitSwapped == 192
LandscapeSwapped == 160
Orientation == {Portrait, Landscape, PortraitSwapped, LandscapeSwapped}

(***************************************************************************)
(* The HAL.  A run of driver code threads a record s through its HAL       *)
(* calls: s.ev the events so far, s.st the outcome so far, s.f the number  *)
(* of fallible HAL calls left until the one that fails (0 = none fails),   *)
(* s.cs, s.dc, s.rst the pin levels.                                       *)
(***************************************************************************)
Event(k, v, d) == [k |-> k, v |-> v, d |-> d, ok |-> TRUE, cs |-> 2, dc |-> 2]

\* A fallible HAL call followed by `.map_err(|_| ())?`: nothing happens once
\* the run has returned; the call that fails ends the run with Err(()).
Hal(s, e) ==
    IF s.st # "ok" THEN s
    ELSE IF s.f = 1
         THEN [s EXCEPT !.ev = Append(@, [e EXCEPT !.ok = FALSE]), !.st = "err", !.f = 0]
         ELSE [s EXCEPT !.ev = Append(@, e),
                        !.f = IF @ = 0 THEN 0 ELSE @ - 1,
                        !.cs = IF e.k = "cs" THEN e.v ELSE @,
                        !.dc = IF e.k = "dc" THEN e.v ELSE @,
                        !.rst = IF e.k = "rst" THEN e.v ELSE @]

\* delay.delay_ms(ms): infallible.
delay_ms(s, ms) ==
    IF s.st # "ok" THEN s ELSE [s EXCEPT !.ev = Append(@, Event("delay", ms, <<>>))]

cs_set_high(s) == Hal(s, Event("cs", 1, <<>>))
cs_set_low(s) == Hal(s, Event("cs", 0, <<>>))
dc_set_high(s) == Hal(s, Event("dc", 1, <<>>))
dc_set_low(s) == Hal(s, Event("dc", 0, <<>>))
rst_set_high(s) == Hal(s, Event("rst", 1, <<>>))
rst_set_low(s) == Hal(s, Event("rst", 0, <<>>))
spi_write(s, bytes) ==
    IF s.st # "ok" THEN s
    ELSE Hal(s, [Event("spi", 0, bytes) EXCEPT !.cs = s.cs, !.dc = s.dc])
spi_write_data(s, bytes) ==
    IF s.st # "ok" THEN s
    ELSE Hal(s, [Event("spi", 1, bytes) EXCEPT !.cs = s.cs, !.dc = s.dc])

\* A panic (arithmetic overflow with overflow checks on, index out of range).
Panic(s) == IF s.st = "ok" THEN [s EXCEPT !.st = "panic"] ELSE s

\* The result of a u16 operation whose mathematical value is n: a panic when
\* n is out of range and the build checks overflow, else s unchanged (the
\* value then wraps, see Wrap16).
Checked16(s, n) ==
    IF s.st = "ok" /\ overflow_checks /\ (n < 0 \/ n >= U16) THEN Panic(s) ELSE s

Wrap16(n) == n % U16

\* u16::to_be_bytes
to_be_bytes(value) == <<value \div 256, value % 256>>

(***************************************************************************)
(* Transaction primitives.                                                 *)
(***************************************************************************)
start_data(s) == dc_set_high(s)

\* Variant: chip-select is not released after the write.
write_data_held(s, data) ==
    spi_write_data(cs_set_low(dc_set_high(cs_set_high(s))), data)

write_data(s, data) ==
    cs_set_high(spi_write_data(cs_set_low(dc_set_high(cs_set_high(s))), data))

\* Variant: chip-select is released after a failure (a rollback).
write_command_release(s, command, params) ==
    LET s1 == spi_write(cs_set_low(dc_set_low(cs_set_high(s))), <<command>>)
        s2 == IF params # <<>> THEN write_data(start_data(s1), params) ELSE s1
        s3 == cs_set_high(s2)
    IN  IF s3.st = "err"
        THEN [s3 EXCEPT !.ev = Append(@, Event("cs", 1, <<>>)), !.cs = 1]
        ELSE s3

\* Variant: the parameters are sent as a data run even when there are none.
write_command_always_data(s, command, params) ==
    LET s1 == spi_write(cs_set_low(dc_set_low(cs_set_high(s))), <<command>>)
    IN  cs_set_high(write_data(start_data(s1), params))

\* Variant: chip-select is not driven high first when it already is high.
write_command_lazy_select(s, command, params) ==
    LET s0 == IF s.cs = 1 THEN s ELSE cs_set_high(s)
        s1 == spi_write(cs_set_low(dc_set_low(s0)), <<command>>)
        s2 == IF params # <<>> THEN write_data(start_data(s1), params) ELSE s1
    IN  cs_set_high(s2)

write_command(s, command, params) ==
    LET s1 == spi_write(cs_set_low(dc_set_low(cs_set_high(s))), <<command>>)
        s2 == IF params # <<>> THEN write_data(start_data(s1), params) ELSE s1
    IN  cs_set_high(s2)

write_word(s, value) == write_data(s, to_be_bytes(value))

(***************************************************************************)
(* Coordinate and window engine.                                           *)
(***************************************************************************)
\* Variant: the end column is sent without the offset.
set_address_window_end_unshifted(s, sx, sy, ex, ey) ==
    LET s1 == start_data(write_command(s, CASET, <<>>))
        s2 == write_word(Checked16(s1, sx + dx), Wrap16(sx + dx))
        s3 == write_word(s2, ex)
        s4 == start_data(write_command(s3, RASET, <<>>))
        s5 == write_word(Checked16(s4, sy + dy), Wrap16(sy + dy))
    IN  write_word(Checked16(s5, ey + dy), Wrap16(ey + dy))

set_address_window(s, sx, sy, ex, ey) ==
    LET s1 == start_data(write_command(s, CASET, <<>>))
        s2 == write_word(Checked16(s1, sx + dx), Wrap16(sx + dx))
        s3 == write_word(Checked16(s2, ex + dx), Wrap16(ex + dx))
        s4 == start_data(write_command(s3, RASET, <<>>))
        s5 == write_word(Checked16(s4, sy + dy), Wrap16(sy + dy))
    IN  write_word(Checked16(s5, ey + dy), Wrap16(ey + dy))

\* Variant: the colour is sent low byte first.
set_pixel_little_endian(s, x, y, color) ==
    LET s1 == set_address_window(s, x, y, x, y)
        s2 == start_data(write_command(s1, RAMWR, <<>>))
    IN  write_data(s2, <<color % 256, color \div 256>>)

set_pixel(s, x, y, color) ==
    LET s1 == set_address_window(s, x, y, x, y)
        s2 == start_data(write_command(s1, RAMWR, <<>>))
    IN  write_word(s2, color)

(***************************************************************************)
(* Buffered word writer.                                                   *)
(***************************************************************************)
BufferLen == 32

\* The `for word in words` loop from its i-th word on; buffer is the local
\* 32-byte array (1-based here), index the 0-based write index.
RECURSIVE write_words_loop(_, _, _, _, _)
write_words_loop(s, words, i, buffer, index) ==
    IF s.st # "ok" THEN s
    ELSE IF i > Len(words) THEN write_data(s, SubSeq(buffer, 1, index))
    ELSE IF index + 1 >= BufferLen THEN Panic(s)
    ELSE LET as_bytes == to_be_bytes(words[i])
             filled == [buffer EXCEPT ![index + 1] = as_bytes[1],
                                      ![index + 2] = as_bytes[2]]
         IN  IF index + 2 >= BufferLen
             THEN write_words_loop(write_data(s, filled), words, i + 1, filled, 0)
             ELSE write_words_loop(s, words, i + 1, filled, index + 2)

\* Variant: the final flush sends the whole buffer, not buffer[0..index].
RECURSIVE write_words_loop_whole(_, _, _, _, _)
write_words_loop_whole(s, words, i, buffer, index) ==
    IF s.st # "ok" THEN s
    ELSE IF i > Len(words) THEN write_data(s, buffer)
    ELSE IF index + 1 >= BufferLen THEN Panic(s)
    ELSE LET as_bytes == to_be_bytes(words[i])
             filled == [buffer EXCEPT ![index + 1] = as_bytes[1],
                                      ![index + 2] = as_bytes[2]]
         IN  IF index + 2 >= BufferLen
             THEN write_words_loop_whole(write_data(s, filled), words, i + 1, filled, 0)
             ELSE write_words_loop_whole(s, words, i + 1, filled, index + 2)

write_words_buffered_whole(s, words) ==
    write_words_loop_whole(s, words, 1, [j \in 1 .. BufferLen |-> 0], 0)

\* Variant: the buffer is flushed only once the index has passed its length.
RECURSIVE write_words_loop_late(_, _, _, _, _)
write_words_loop_late(s, words, i, buffer, index) ==
    IF s.st # "ok" THEN s
    ELSE IF i > Len(words) THEN write_data(s, SubSeq(buffer, 1, index))
    ELSE IF index + 1 >= BufferLen THEN Panic(s)
    ELSE LET as_bytes == to_be_bytes(words[i])
             filled == [buffer EXCEPT ![index + 1] = as_bytes[1],
                                      ![index + 2] = as_bytes[2]]
         IN  IF index + 2 > BufferLen
             THEN write_words_loop_late(write_data(s, filled), words, i + 1, filled, 0)
             ELSE write_words_loop_late(s, words, i + 1, filled, index + 2)

write_words_buffered_late(s, words) ==
    write_words_loop_late(s, words, 1, [j \in 1 .. BufferLen |-> 0], 0)

\* The value of `index` after n words have gone through the loop body.
RECURSIVE index_after(_)
index_after(n) ==
    IF n = 0 THEN 0
    ELSE LET index == index_after(n - 1) + 2
         IN  IF index >= BufferLen THEN 0 ELSE index

write_words_buffered(s, words) ==
    write_words_loop(s, words, 1, [j \in 1 .. BufferLen |-> 0], 0)

(***************************************************************************)
(* Orientation.                                                            *)
(***************************************************************************)
\* Bitwise OR of a byte with 0x08.
Or8(b) == IF (b \div 8) % 2 = 1 THEN b ELSE b + 8

\* Variant: the colour-order test is inverted.
set_orientation_inverted(s, orientation) ==
    IF ~rgb
    THEN write_command(s, MADCTL, <<orientation>>)
    ELSE write_command(s, MADCTL, <<Or8(orientation)>>)

set_orientation(s, orientation) ==
    IF rgb
    THEN write_command(s, MADCTL, <<orientation>>)
    ELSE write_command(s, MADCTL, <<Or8(orientation)>>)

(***************************************************************************)
(* Reset and initialization.                                               *)
(***************************************************************************)
\* Variant: the reset line is released without the last wait.
hard_reset_no_settle(s) ==
    rst_set_high(delay_ms(rst_set_low(delay_ms(rst_set_high(s), 10)), 10))

hard_reset(s) ==
    delay_ms(rst_set_high(delay_ms(rst_set_low(delay_ms(rst_set_high(s), 10)), 10)), 10)

\* The commands of init, in source order: <<opcode, parameters>>.
InitTable == <<
    <<239, <<>>>>,
    <<235, <<20>>>>,
    <<254, <<>>>>,
    <<239, <<>>>>,
    <<235, <<20>>>>,
    <<132, <<64>>>>,
    <<133, <<255>>>>,
    <<134, <<255>>>>,
    <<135, <<255>>>>,
    <<136, <<10>>>>,
    <<137, <<33>>>>,
    <<138, <<0>>>>,
    <<139, <<128>>>>,
    <<140, <<1>>>>,
    <<141, <<1>>>>,
    <<142, <<255>>>>,
    <<143, <<255>>>>,
    <<182, <<0, 32>>>>,
    <<54, <<152>>>>,
    <<58, <<5>>>>,
    <<144, <<8, 8, 8, 8>>>>,
    <<189, <<6>>>>,
    <<188, <<0>>>>,
    <<255, <<96, 1, 4>>>>,
    <<195, <<19>>>>,
    <<196, <<19>>>>,
    <<201, <<34>>>>,
    <<190, <<17>>>>,
    <<225, <<16, 14>>>>,
    <<223, <<33, 12, 2>>>>,
    <<240, <<69, 9, 8, 8, 38, 42>>>>,
    <<241, <<67, 112, 114, 54, 55, 111>>>>,
    <<242, <<69, 9, 8, 8, 38, 42>>>>,
    <<243, <<67, 112, 114, 54, 55, 111>>>>,
    <<237, <<27, 11>>>>,
    <<174, <<119>>>>,
    <<205, <<99>>>>,
    <<112, <<7, 7, 4, 14, 15, 9, 7, 8, 3>>>>,
    <<232, <<52>>>>,
    <<98, <<24, 13, 113, 237, 112, 112, 24, 15, 113, 239, 112, 112>>>>,
    <<99, <<24, 17, 113, 241, 112, 112, 24, 19, 113, 243, 112, 112>>>>,
    <<100, <<40, 41, 241, 1, 241, 0, 7>>>>,
    <<102, <<60, 0, 205, 103, 69, 69, 16, 0, 0, 0>>>>,
    <<103, <<0, 60, 0, 0, 0, 1, 84, 16, 50, 152>>>>,
    <<116, <<16, 133, 128, 0, 0, 78, 0>>>>,
    <<152, <<62, 7>>>>,
    <<53, <<>>>>,
    <<33, <<>>>>,
    <<17, <<>>>>,
    <<41, <<>>>>
>>

\* The write_command calls of init from the i-th on, each followed by `?`.
RECURSIVE init_commands(_, _)
init_commands(s, i) ==
    IF s.st # "ok" \/ i > Len(InitTable) THEN s
    ELSE init_commands(write_command(s, InitTable[i][1], InitTable[i][2]), i + 1)

\* Variant: the commands are sent without the reset.
init_no_reset(s) == delay_ms(init_commands(s, 1), 200)

\* Variant: the stabilization delay is requested whatever the commands returned.
init_always_delay(s) ==
    LET r == init_commands(hard_reset(s), 1)
    IN  [r EXCEPT !.ev = Append(@, Event("delay", 200, <<>>))]

\* Variant: init returns right after display-on.
init_no_delay(s) == init_commands(hard_reset(s), 1)

init(s) == delay_ms(init_commands(hard_reset(s), 1), 200)

(***************************************************************************)
(* Pixel streams.                                                          *)
(***************************************************************************)
\* `for color in colors { self.write_word(color)?; }` from the i-th colour on.
RECURSIVE write_each_word(_, _, _)
write_each_word(s, colors, i) ==
    IF s.st # "ok" \/ i > Len(colors) THEN s
    ELSE write_each_word(write_word(s, colors[i]), colors, i + 1)

write_pixels(s, colors) ==
    write_each_word(start_data(write_command(s, RAMWR, <<>>)), colors, 1)

write_pixels_buffered(s, colors) ==
    write_words_buffered(start_data(write_command(s, RAMWR, <<>>)), colors)

set_pixels(s, sx, sy, ex, ey, colors) ==
    write_pixels(set_address_window(s, sx, sy, ex, ey), colors)

set_pixels_buffered(s, sx, sy, ex, ey, colors) ==
    write_pixels_buffered(set_address_window(s, sx, sy, ex, ey), colors)

(***************************************************************************)
(* Byte buffers.                                                           *)
(***************************************************************************)
ChunkLen == 32

Min(a, b) == IF a < b THEN a ELSE b

\* Variant: the data goes out in one write, not in chunks.
write_chunks_whole(s, data) ==
    IF s.st # "ok" \/ data = <<>> THEN s ELSE write_data(s, data)

\* `for chunk in data.chunks(32) { self.write_data(chunk)?; }`
RECURSIVE write_chunks(_, _)
write_chunks(s, data) ==
    IF s.st # "ok" \/ data = <<>> THEN s
    ELSE write_chunks(write_data(s, SubSeq(data, 1, Min(ChunkLen, Len(data)))),
                      SubSeq(data, ChunkLen + 1, Len(data)))

draw_image(s, image_data) ==
    LET w16 == Wrap16(width)
        h16 == Wrap16(height)
        s1 == Checked16(Checked16(s, w16 - 1), h16 - 1)
        s2 == set_address_window(s1, 0, 0, Wrap16(w16 - 1), Wrap16(h16 - 1))
        s3 == start_data(write_command(s2, RAMWR, <<>>))
    IN  write_chunks(s3, image_data)

\* Variant: the window is set through set_address_window, from the
\* configured size and the offset.
show_configured(s, buffer) ==
    LET s1 == set_address_window(s, 0, 0, Wrap16(width - 1), Wrap16(height - 1))
        s2 == write_command(s1, RAMWR, <<>>)
    IN  cs_set_high(spi_write_data(cs_set_low(dc_set_high(cs_set_high(s2))), buffer))

\* Variant: the selector is not driven before the buffer is written.
show_selector_kept(s, buffer) ==
    LET s1 == write_data(write_command(s, CASET, <<>>), <<0, 0, 0, 239>>)
        s2 == write_data(write_command(s1, RASET, <<>>), <<0, 0, 0, 239>>)
        s3 == write_command(s2, RAMWR, <<>>)
    IN  cs_set_high(spi_write_data(cs_set_low(cs_set_high(s3)), buffer))

show(s, buffer) ==
    LET s1 == write_data(write_command(s, CASET, <<>>), <<0, 0, 0, 239>>)
        s2 == write_data(write_command(s1, RASET, <<>>), <<0, 0, 0, 239>>)
        s3 == write_command(s2, RAMWR, <<>>)
    IN  cs_set_high(spi_write_data(cs_set_low(dc_set_high(cs_set_high(s3))), buffer))

\* Variant: the row stride is one pixel more than the panel's width.
RECURSIVE show_rows_stride_padded(_, _, _, _, _, _)
show_rows_stride_padded(s, buffer, y, ey, sx, w) ==
    IF s.st # "ok" \/ y > ey THEN s
    ELSE LET start_index == (y * (width + 1) + sx) * 2
             end_index == start_index + w * 2
         IN  IF end_index > Len(buffer) THEN Panic(s)
             ELSE show_rows_stride_padded(
                      write_chunks(s, SubSeq(buffer, start_index + 1, end_index)),
                      buffer, y + 1, ey, sx, w)

\* Variant: the row start is counted in pixels, not bytes.
RECURSIVE show_rows_unscaled(_, _, _, _, _, _)
show_rows_unscaled(s, buffer, y, ey, sx, w) ==
    IF s.st # "ok" \/ y > ey THEN s
    ELSE LET start_index == y * width + sx
             end_index == start_index + w * 2
         IN  IF end_index > Len(buffer) THEN Panic(s)
             ELSE show_rows_unscaled(
                      write_chunks(s, SubSeq(buffer, start_index + 1, end_index)),
                      buffer, y + 1, ey, sx, w)

\* The `for y in sy..=ey` loop of show_region from row y on.
RECURSIVE show_rows(_, _, _, _, _, _)
show_rows(s, buffer, y, ey, sx, w) ==
    IF s.st # "ok" \/ y > ey THEN s
    ELSE LET start_index == (y * width + sx) * 2
             end_index == start_index + w * 2
         IN  IF end_index > Len(buffer) THEN Panic(s)
             ELSE show_rows(write_chunks(s, SubSeq(buffer, start_index + 1, end_index)),
                            buffer, y + 1, ey, sx, w)

show_region(s, buffer, top_left_x, top_left_y, w, h) ==
    LET s1 == Checked16(Checked16(s, top_left_x + w), Wrap16(top_left_x + w) - 1)
        ex == Wrap16(top_left_x + w - 1)
        s2 == Checked16(Checked16(s1, top_left_y + h), Wrap16(top_left_y + h) - 1)
        ey == Wrap16(top_left_y + h - 1)
        s3 == set_address_window(s2, top_left_x, top_left_y, ex, ey)
        s4 == start_data(write_command(s3, RAMWR, <<>>))
    IN  show_rows(s4, buffer, top_left_y, ey, top_left_x, w)

(***************************************************************************)
(* Calls.                                                                  *)
(***************************************************************************)
\* The run of a call starts with no events, in the current pin state; its
\* f-th fallible HAL call fails (none when f = 0).
Start(f) == [ev |-> <<>>, st |-> "ok", f |-> f, cs |-> cs, dc |-> dc, rst |-> rst]

\* The number of fallible HAL calls among the events evs.
Fallible(evs) == Cardinality({i \in 1 .. Len(evs) : evs[i].k # "delay"})

\* The call ends: its events, outcome and the pin levels become the state.
Finish(s, call) ==
    \E r \in {s} :
       /\ pc' = "done"
       /\ op' = call
       /\ ev' = r.ev
       /\ res' = r.st
       /\ cs' = r.cs
       /\ dc' = r.dc
       /\ rst' = r.rst

\* A call: the operation, its integer arguments, its sequence argument.
NoCall == [name |-> "none", a |-> <<>>, b |-> <<>>]
Call(name, a, b) == [name |-> name, a |-> a, b |-> b]

(***************************************************************************)
(* Inputs.                                                                 *)
(***************************************************************************)
Offsets == {<<0, 0>>, <<5, 7>>}
Windows == {<<0, 0, 1, 1>>, <<10, 20, 30, 65535>>, <<65535, 0, 65535, 2>>}
Pixels == {<<10, 20, 63488>>, <<0, 0, 0>>, <<65535, 3, 4660>>}
Panels == {[rgb |-> TRUE, w |-> 2, h |-> 2], [rgb |-> FALSE, w |-> 17, h |-> 2],
           [rgb |-> TRUE, w |-> 2, h |-> 0], [rgb |-> FALSE, w |-> 65538, h |-> 2]}

\* The n 16-bit words w, w + 4099, ... and the n bytes b, b + 37, ...
WordSeq(n, w) == [i \in 1 .. n |-> (w + (i - 1) * 4099) % U16]
ByteSeq(n, b) == [i \in 1 .. n |-> (b + (i - 1) * 37) % 256]

FullPanel == Wrap16(width) * Wrap16(height) * 2
Buffers == {ByteSeq(n, 11) : n \in {0, FullPanel - 2, FullPanel, FullPanel + MaxBuf} \cap Nat}
RegionBuffers == {ByteSeq(n, 11) : n \in {FullPanel - 2, FullPanel} \cap Nat}
ColorSeqs == {WordSeq(n, 63488) : n \in {0, 1, 2}}
LongColorSeqs == {WordSeq(n, 63488) : n \in {0, 1, 16, 17}}
WordSeqs == {WordSeq(n, 63488) : n \in {0, 1, 2, 15, 16, 17, 31, 32, MaxWords}}
CommandParams == {<<>>, <<20>>, <<0, 32>>, <<69, 9, 8, 8, 38, 42>>}
Regions == {<<0, 0, Wrap16(width), Wrap16(height)>>, <<1, 0, 1, 2>>, <<0, 1, 2, 1>>,
            <<0, 0, 0, 0>>, <<65535, 0, 2, 1>>, <<0, 65535, 1, 2>>}
\* Where a failure is injected into init: everywhere in SpecInit, here at
\* the first, some middle and the last HAL calls.
InitFailures == {0, 1, 3, 4, 7, 9, 14, 511}

Init ==
    /\ \E p \in Panels : rgb = p.rgb /\ width = p.w /\ height = p.h
    /\ dx = 0
    /\ dy = 0
    /\ overflow_checks \in BOOLEAN
    /\ cs = 2
    /\ dc = 2
    /\ rst = 2
    /\ pc = "idle"
    /\ op = NoCall
    /\ ev = <<>>
    /\ res = "none"

Config == <<rgb, width, height, overflow_checks>>

\* Variant: the two offsets are stored in each other's field.
Call_set_offset_swapped ==
    /\ pc = "idle"
    /\ \E o \in Offsets :
          /\ dx' = o[2]
          /\ dy' = o[1]
          /\ Finish(Start(0), Call("set_offset", o, <<>>))
    /\ UNCHANGED Config

Call_set_offset ==
    /\ pc = "idle"
    /\ \E o \in Offsets :
          /\ dx' = o[1]
          /\ dy' = o[2]
          /\ Finish(Start(0), Call("set_offset", o, <<>>))
    /\ UNCHANGED Config

Call_set_orientation ==
    /\ pc = "idle"
    /\ \E o \in Orientation :
          \E f \in 0 .. Fallible(set_orientation(Start(0), o).ev) :
             Finish(set_orientation(Start(f), o), Call("set_orientation", <<o>>, <<>>))
    /\ UNCHANGED <<Config, dx, dy>>

Call_set_address_window ==
    /\ pc = "idle"
    /\ \E a \in Windows :
          \E f \in 0 .. Fallible(set_address_window(Start(0), a[1], a[2], a[3], a[4]).ev) :
             Finish(set_address_window(Start(f), a[1], a[2], a[3], a[4]),
                    Call("set_address_window", a, <<>>))
    /\ UNCHANGED <<Config, dx, dy>>

Call_set_pixel ==
    /\ pc = "idle"
    /\ \E a \in Pixels :
          \E f \in 0 .. Fallible(set_pixel(Start(0), a[1], a[2], a[3]).ev) :
             Finish(set_pixel(Start(f), a[1], a[2], a[3]), Call("set_pixel", a, <<>>))
    /\ UNCHANGED <<Config, dx, dy>>

Call_write_pixels ==
    /\ pc = "idle"
    /\ \E colors \in ColorSeqs :
          \E f \in 0 .. Fallible(write_pixels(Start(0), colors).ev) :
             Finish(write_pixels(Start(f), colors), Call("write_pixels", <<>>, colors))
    /\ UNCHANGED <<Config, dx, dy>>

Call_write_pixels_buffered ==
    /\ pc = "idle"
    /\ \E colors \in LongColorSeqs :
          \E f \in 0 .. Fallible(write_pixels_buffered(Start(0), colors).ev) :
             Finish(write_pixels_buffered(Start(f), colors),
                    Call("write_pixels_buffered", <<>>, colors))
    /\ UNCHANGED <<Config, dx, dy>>

Call_set_pixels ==
    /\ pc = "idle"
    /\ \E a \in {<<0, 0, 1, 1>>}, colors \in ColorSeqs :
          \E f \in 0 .. Fallible(set_pixels(Start(0), a[1], a[2], a[3], a[4], colors).ev) :
             Finish(set_pixels(Start(f), a[1], a[2], a[3], a[4], colors),
                    Call("set_pixels", a, colors))
    /\ UNCHANGED <<Config, dx, dy>>

Call_set_pixels_buffered ==
    /\ pc = "idle"
    /\ \E a \in {<<0, 0, 1, 1>>}, colors \in LongColorSeqs :
          \E f \in 0 .. Fallible(set_pixels_buffered(Start(0), a[1], a[2], a[3], a[4], colors).ev) :
             Finish(set_pixels_buffered(Start(f), a[1], a[2], a[3], a[4], colors),
                    Call("set_pixels_buffered", a, colors))
    /\ UNCHANGED <<Config, dx, dy>>

Call_draw_image ==
    /\ pc = "idle"
    /\ \E b \in Buffers :
          \E f \in 0 .. Fallible(draw_image(Start(0), b).ev) :
             Finish(draw_image(Start(f), b), Call("draw_image", <<>>, b))
    /\ UNCHANGED <<Config, dx, dy>>

Call_show ==
    /\ pc = "idle"
    /\ \E b \in Buffers :
          \E f \in 0 .. Fallible(show(Start(0), b).ev) :
             Finish(show(Start(f), b), Call("show", <<>>, b))
    /\ UNCHANGED <<Config, dx, dy>>

Call_show_region ==
    /\ pc = "idle"
    /\ \E b \in RegionBuffers, a \in Regions :
          \E f \in 0 .. Fallible(show_region(Start(0), b, a[1], a[2], a[3], a[4]).ev) :
             Finish(show_region(Start(f), b, a[1], a[2], a[3], a[4]),
                    Call("show_region", a, b))
    /\ UNCHANGED <<Config, dx, dy>>

Call_hard_reset ==
    /\ pc = "idle"
    /\ \E f \in 0 .. Fallible(hard_reset(Start(0)).ev) :
          Finish(hard_reset(Start(f)), Call("hard_reset", <<>>, <<>>))
    /\ UNCHANGED <<Config, dx, dy>>

Call_init ==
    /\ pc = "idle"
    /\ \E f \in InitFailures :
          Finish(init(Start(f)), Call("init", <<>>, <<>>))
    /\ UNCHANGED <<Config, dx, dy>>

\* The caller takes the result; a panic ends the program.
Return ==
    /\ pc = "done"
    /\ res # "panic"
    /\ pc' = "idle"
    /\ op' = NoCall
    /\ ev' = <<>>
    /\ res' = "none"
    /\ UNCHANGED <<Config, dx, dy, cs, dc, rst>>

Next ==
    \/ Call_set_offset
    \/ Call_set_orientation
    \/ Call_set_address_window
    \/ Call_set_pixel
    \/ Call_write_pixels
    \/ Call_write_pixels_buffered
    \/ Call_set_pixels
    \/ Call_set_pixels_buffered
    \/ Call_draw_image
    \/ Call_show
    \/ Call_show_region
    \/ Call_hard_reset
    \/ Call_init
    \/ Return

Spec == Init /\ [][Next]_vars

\* One driver: a 2 x 2 RGB panel, in a build that checks overflow.
InitOnePanel ==
    /\ Init
    /\ width = 2
    /\ height = 2
    /\ overflow_checks

(***************************************************************************)
(* The private transaction primitives, called on their own.                *)
(***************************************************************************)
Call_write_command ==
    /\ pc = "idle"
    /\ \E command \in {CASET, RAMWR, MADCTL}, params \in CommandParams :
          \E f \in 0 .. Fallible(write_command(Start(0), command, params).ev) :
             Finish(write_command(Start(f), command, params),
                    Call("write_command", <<command>>, params))
    /\ UNCHANGED <<Config, dx, dy>>

Call_write_data ==
    /\ pc = "idle"
    /\ \E data \in CommandParams :
          \E f \in 0 .. Fallible(write_data(Start(0), data).ev) :
             Finish(write_data(Start(f), data), Call("write_data", <<>>, data))
    /\ UNCHANGED <<Config, dx, dy>>

\* N sequential write_word calls, stopping at the first that fails.
Call_write_word ==
    /\ pc = "idle"
    /\ \E words \in WordSeqs :
          \E f \in 0 .. Fallible(write_each_word(Start(0), words, 1).ev) :
             Finish(write_each_word(Start(f), words, 1), Call("write_word", <<>>, words))
    /\ UNCHANGED <<Config, dx, dy>>

Call_write_words_buffered ==
    /\ pc = "idle"
    /\ \E words \in WordSeqs :
          \E f \in 0 .. Fallible(write_words_buffered(Start(0), words).ev) :
             Finish(write_words_buffered(Start(f), words),
                    Call("write_words_buffered", <<>>, words))
    /\ UNCHANGED <<Config, dx, dy>>

NextPrim ==
    \/ Call_write_command
    \/ Call_write_data
    \/ Call_write_word
    \/ Call_write_words_buffered
    \/ Return

SpecPrim == InitOnePanel /\ [][NextPrim]_vars

(***************************************************************************)
(* Reset and initialization with a failure injected at any HAL call.       *)
(***************************************************************************)
Call_init_any ==
    /\ pc = "idle"
    /\ \E f \in 0 .. Fallible(init(Start(0)).ev) :
          Finish(init(Start(f)), Call("init", <<>>, <<>>))
    /\ UNCHANGED <<Config, dx, dy>>

NextInit ==
    \/ Call_init_any
    \/ Call_hard_reset
    \/ Call_set_offset
    \/ Return

SpecInit == InitOnePanel /\ [][NextInit]_vars

(***************************************************************************)
(* What a call transmitted, read off its events.                           *)
(***************************************************************************)
IsWrite(e) == e.k = "spi" /\ e.ok

\* The bus writes that succeeded, in order.
Writes(evs) == SelectSeq(evs, IsWrite)

\* The bytes of the writes ws from the i-th on, each paired with the level
\* of the data/command pin it was written under: <<dc, byte>>.
RECURSIVE StreamFrom(_, _)
StreamFrom(ws, i) ==
    IF i > Len(ws) THEN <<>>
    ELSE [j \in 1 .. Len(ws[i].d) |-> <<ws[i].dc, ws[i].d[j]>>] \o StreamFrom(ws, i + 1)

Stream(evs) == StreamFrom(Writes(evs), 1)

\* An opcode byte and the two bytes of a 16-bit value sent as data, as
\* they appear in a stream.
Opcode(b) == <<(<<0, b>>)>>
Data16(n) == <<(<<1, (n % 65536) \div 256>>), (<<1, n % 256>>)>>

\* The words ws from the i-th on as data bytes, high byte first.
RECURSIVE WordsFrom(_, _)
WordsFrom(ws, i) == IF i > Len(ws) THEN <<>> ELSE Data16(ws[i]) \o WordsFrom(ws, i + 1)

Ended(name) == pc = "done" /\ op.name = name
Succeeded(name) == Ended(name) /\ res = "ok"

(***************************************************************************)
(* C1: a successful set_address_window(sx, sy, ex, ey) under the stored    *)
(* offset (dx, dy) transmits exactly: opcode 0x2A, sx+dx and ex+dx as      *)
(* big-endian 16-bit data, opcode 0x2B, sy+dy and ey+dy as big-endian      *)
(* 16-bit data, in this order (a sum above 65535 is sent as its low 16     *)
(* bits, which only a build that wraps on overflow reaches).               *)
(***************************************************************************)
C1_AddressWindowBytes ==
    Succeeded("set_address_window") =>
        Stream(ev) = Opcode(42) \o Data16(op.a[1] + dx) \o Data16(op.a[3] + dx)
                     \o Opcode(43) \o Data16(op.a[2] + dy) \o Data16(op.a[4] + dy)

C1_Witness ==
    /\ Succeeded("set_address_window")
    /\ dx = 5
    /\ dy = 7
    /\ op.a = <<0, 0, 1, 1>>

(***************************************************************************)
(* C2: a successful set_pixel(x, y, color) transmits column-address-set    *)
(* with (x+dx, x+dx), row-address-set with (y+dy, y+dy), the memory-write  *)
(* opcode 0x2C and then exactly the two data bytes of color, high byte     *)
(* first.                                                                  *)
(***************************************************************************)
C2_SetPixelBytes ==
    Succeeded("set_pixel") =>
        Stream(ev) = Opcode(42) \o Data16(op.a[1] + dx) \o Data16(op.a[1] + dx)
                     \o Opcode(43) \o Data16(op.a[2] + dy) \o Data16(op.a[2] + dy)
                     \o Opcode(44) \o Data16(op.a[3])

C2_Witness ==
    /\ Succeeded("set_pixel")
    /\ op.a = <<10, 20, 63488>>
    /\ dx = 0
    /\ dy = 0
    /\ Stream(ev)[11] = <<0, 44>>
    /\ Stream(ev)[12] = <<1, 248>>
    /\ Stream(ev)[13] = <<1, 0>>

(***************************************************************************)
(* C3: the bytes a successful write_words_buffered(words) hands to the bus *)
(* are, in order, the bytes that Len(words) sequential write_word calls    *)
(* hand to it: the high then the low byte of each word.                    *)
(***************************************************************************)
C3_BufferedSameBytes ==
    Succeeded("write_words_buffered") =>
        LET r == write_each_word(Start(0), op.b, 1)
        IN  /\ r.st = "ok"
            /\ Stream(ev) = Stream(r.ev)
            /\ Stream(ev) = WordsFrom(op.b, 1)

C3_Witness ==
    /\ Succeeded("write_words_buffered")
    /\ Len(op.b) = 17
    /\ Len(Writes(ev)) = 2
    /\ Len(Stream(ev)) = 34

(***************************************************************************)
(* The commands of a call: each bus write at the command level opens a     *)
(* command <<opcode, parameters>>; the data-level writes that follow it    *)
(* are its parameters.                                                     *)
(***************************************************************************)
RECURSIVE ParamsFrom(_, _)
ParamsFrom(ws, i) ==
    IF i > Len(ws) \/ ws[i].dc # 1 THEN <<>> ELSE ws[i].d \o ParamsFrom(ws, i + 1)

Commands(evs) ==
    LET ws == Writes(evs)
        IsOpcode(i) == ws[i].dc = 0
        at == SelectSeq([i \in 1 .. Len(ws) |-> i], IsOpcode)
    IN  [k \in 1 .. Len(at) |-> <<ws[at[k]].d[1], ParamsFrom(ws, at[k] + 1)>>]

Failed(evs) == {i \in 1 .. Len(evs) : ~evs[i].ok}

\* The six events of a complete reset.
ResetSequence ==
    << Event("rst", 1, <<>>), Event("delay", 10, <<>>),
       Event("rst", 0, <<>>), Event("delay", 10, <<>>),
       Event("rst", 1, <<>>), Event("delay", 10, <<>>) >>

(***************************************************************************)
(* C4: in every run of init the complete reset sequence precedes the first *)
(* bus write; a run without failure issues exactly the commands of the     *)
(* initialization table, in order and with their payloads, the last two    *)
(* being sleep-out (0x11) and display-on (0x29).                           *)
(***************************************************************************)
C4_InitOrder ==
    Ended("init") =>
        /\ \A i \in 1 .. Len(ev) :
              ev[i].k = "spi" => i > 6 /\ SubSeq(ev, 1, 6) = ResetSequence
        /\ res = "ok" =>
              LET cmds == Commands(ev)
              IN  /\ cmds = InitTable
                  /\ \A i \in 1 .. Len(Writes(ev)) :
                        Writes(ev)[i].dc = 0 => Len(Writes(ev)[i].d) = 1
                  /\ Len(cmds) = 50
                  /\ cmds[1] = <<239, <<>>>>
                  /\ cmds[Len(cmds) - 1] = <<17, <<>>>>
                  /\ cmds[Len(cmds)] = <<41, <<>>>>

C4_Witness ==
    /\ Succeeded("init")
    /\ Len(Commands(ev)) = 50
    /\ Len(ev) = 515

(***************************************************************************)
(* C5: a successful set_orientation transmits opcode 0x36 and then exactly *)
(* one parameter byte: the orientation's bit pattern, with 0x08 set if and *)
(* only if the driver is BGR (rgb = FALSE).                                *)
(***************************************************************************)
C5_OrientationByte ==
    Succeeded("set_orientation") =>
        /\ op.a[1] \in {0, 96, 192, 160}
        /\ Stream(ev) = Opcode(54) \o <<(<<1, op.a[1] + (IF rgb THEN 0 ELSE 8)>>)>>

C5_Witness ==
    /\ Succeeded("set_orientation")
    /\ ~rgb
    /\ op.a = <<96>>
    /\ Stream(ev) = <<(<<0, 54>>), (<<1, 104>>)>>

(***************************************************************************)
(* C6 as stated: for every buffer, show_region(buffer, 0, 0, W, H) and     *)
(* draw_image(buffer) from the same driver state transmit the same window  *)
(* and the same byte stream.                                               *)
(***************************************************************************)
FitsU16 == width \in 0 .. 65535 /\ height \in 0 .. 65535

C6_AnyBuffer ==
    (Succeeded("draw_image") /\ FitsU16) =>
        LET r == show_region(Start(0), op.b, 0, 0, width, height)
        IN  r.st = "ok" /\ Stream(r.ev) = Stream(ev)

(***************************************************************************)
(* C6 amended: for a buffer of exactly W*H*2 bytes and 1 <= W, H <= 65535, *)
(* whenever one of show_region(buffer, 0, 0, W, H) and draw_image(buffer)  *)
(* succeeds, the other, run without failure from the same driver state,    *)
(* succeeds too and transmits the same window and the same byte stream     *)
(* (the split into bus writes may differ).                                 *)
(***************************************************************************)
ExactPanel(b) ==
    /\ width \in 1 .. 65535
    /\ height \in 1 .. 65535
    /\ Len(b) = width * height * 2

C6_ExactBuffer ==
    /\ (Succeeded("draw_image") /\ ExactPanel(op.b)) =>
          LET r == show_region(Start(0), op.b, 0, 0, width, height)
          IN  r.st = "ok" /\ Stream(r.ev) = Stream(ev)
    /\ (Succeeded("show_region") /\ ExactPanel(op.b) /\ op.a = <<0, 0, width, height>>) =>
          LET r == draw_image(Start(0), op.b)
          IN  r.st = "ok" /\ Stream(r.ev) = Stream(ev)

C6_Witness ==
    /\ Succeeded("draw_image")
    /\ ExactPanel(op.b)
    /\ width = 17
    /\ Len(Writes(ev)) # Len(Writes(show_region(Start(0), op.b, 0, 0, width, height).ev))

(***************************************************************************)
(* C7: when a pin drive or the bus write fails in write_command, with or   *)
(* without parameters, write_command returns the failure and makes no      *)
(* further pin drive or bus write: the failing call is its last event.     *)
(***************************************************************************)
C7_CommandAborts ==
    Ended("write_command") =>
        /\ res \in {"ok", "err"}
        /\ res = "err" <=> Failed(ev) # {}
        /\ \A i \in Failed(ev) : i = Len(ev)
        /\ (Len(ev) >= 4 /\ ~ev[4].ok) => Len(Writes(ev)) = 0

C7_Witness ==
    /\ Ended("write_command")
    /\ res = "err"
    /\ op.b # <<>>
    /\ Len(ev) = 4
    /\ ev[4].k = "spi"
    /\ ~ev[4].ok

(***************************************************************************)
(* C8: a successful write_command(opcode, params) writes the one opcode    *)
(* byte with the selector low and chip-select low; if and only if params   *)
(* is non-empty it then drives the selector high and writes exactly params *)
(* with chip-select low; its last event drives chip-select high.  With no  *)
(* params there is no data-level write and the selector is left low.       *)
(***************************************************************************)
DrivesDataLevel(evs) == \E i \in 1 .. Len(evs) : evs[i].k = "dc" /\ evs[i].v = 1

C8_CommandFraming ==
    Succeeded("write_command") =>
        LET ws == Writes(ev)
        IN  /\ Len(ws) >= 1
            /\ ws[1].d = op.a
            /\ ws[1].dc = 0
            /\ ws[1].cs = 0
            /\ op.b = <<>> => Len(ws) = 1 /\ ~DrivesDataLevel(ev) /\ dc = 0
            /\ op.b # <<>> =>
                  /\ Len(ws) = 2
                  /\ ws[2].d = op.b
                  /\ ws[2].dc = 1
                  /\ ws[2].cs = 0
                  /\ DrivesDataLevel(ev)
            /\ ev[Len(ev)] = Event("cs", 1, <<>>)
            /\ cs = 1

C8_Witness ==
    /\ Succeeded("write_command")
    /\ op.b = <<0, 32>>
    /\ Len(Writes(ev)) = 2

(***************************************************************************)
(* C9: a failure of any reset-line drive, control-line drive or bus write  *)
(* makes init return the failure at once: its events are the failure-free  *)
(* sequence cut at the failing call, the 200 ms delay is not requested,    *)
(* and init returns success only when every call succeeded.                *)
(***************************************************************************)
C9_InitAborts ==
    Ended("init") =>
        LET full == init(Start(0)).ev
            n == Len(ev)
        IN  /\ res \in {"ok", "err"}
            /\ res = "ok" <=> Failed(ev) = {}
            /\ res = "ok" => ev = full
            /\ res = "err" =>
                  /\ Failed(ev) = {n}
                  /\ n < Len(full)
                  /\ SubSeq(ev, 1, n - 1) = SubSeq(full, 1, n - 1)
                  /\ [ev[n] EXCEPT !.ok = TRUE] = full[n]
                  /\ \A i \in 1 .. n : ~(ev[i].k = "delay" /\ ev[i].v = 200)

C9_Witness ==
    /\ Ended("init")
    /\ res = "err"
    /\ Len(Writes(ev)) = 20
    /\ ev[Len(ev)].k = "spi"

(***************************************************************************)
(* C10 as stated: every public operation ends by returning a result and    *)
(* never panics.                                                           *)
(***************************************************************************)
C10_NoPanic == pc = "done" => res \in {"ok", "err"}

(***************************************************************************)
(* C11: a successful show(buffer) transmits 0x2A with the parameter bytes  *)
(* 00 00 00 EF, 0x2B with the parameter bytes 00 00 00 EF, 0x2C, and then  *)
(* the whole buffer in exactly one bus write, whatever dx, dy, width and   *)
(* height are.                                                             *)
(***************************************************************************)
\* A bus write as <<selector level, bytes>>.
Framed(evs) == [i \in 1 .. Len(Writes(evs)) |-> <<Writes(evs)[i].dc, Writes(evs)[i].d>>]

C11_ShowFixedWindow ==
    Succeeded("show") =>
        Framed(ev) = << <<0, <<42>>>>, <<1, <<0, 0, 0, 239>>>>,
                        <<0, <<43>>>>, <<1, <<0, 0, 0, 239>>>>,
                        <<0, <<44>>>>, <<1, op.b>> >>

C11_Witness ==
    /\ Succeeded("show")
    /\ dx = 5
    /\ dy = 7
    /\ width = 17
    /\ Len(op.b) > 32
    /\ Len(Writes(ev)) = 6

(***************************************************************************)
(* C12: a successful hard_reset emits exactly reset high, 10 ms, reset     *)
(* low, 10 ms, reset high, 10 ms, and leaves the reset line high; it       *)
(* writes nothing to the bus and drives neither chip-select nor the        *)
(* selector; a failed reset-line drive is its last event.  Only hard_reset *)
(* and init drive the reset line.                                          *)
(***************************************************************************)
C12_HardReset ==
    /\ Ended("hard_reset") =>
          LET n == Len(ev)
          IN  /\ res \in {"ok", "err"}
              /\ \A i \in 1 .. n : ev[i].k \in {"rst", "delay"}
              /\ res = "ok" => ev = ResetSequence /\ rst = 1
              /\ res = "err" =>
                    /\ Failed(ev) = {n}
                    /\ n <= Len(ResetSequence)
                    /\ SubSeq(ev, 1, n - 1) = SubSeq(ResetSequence, 1, n - 1)
                    /\ [ev[n] EXCEPT !.ok = TRUE] = ResetSequence[n]
    /\ (pc = "done" /\ op.name \notin {"hard_reset", "init"}) =>
          \A i \in 1 .. Len(ev) : ev[i].k # "rst"

C12_Witness ==
    /\ Succeeded("hard_reset")
    /\ ev = ResetSequence
    /\ rst = 1
    /\ cs = 0

(***************************************************************************)
(* C13: for every buffer length L, a successful draw_image(buffer) sets    *)
(* the window to columns (0+dx, W-1+dx) and rows (0+dy, H-1+dy), issues    *)
(* memory-write once and then transmits the buffer as ceil(L/32) bus       *)
(* writes, each of 32 bytes except the last, whose bytes in order are the  *)
(* buffer; draw_image returns a failure only when a HAL call failed (the   *)
(* window values are 16-bit: W-1 and the sums are sent as their low 16     *)
(* bits).                                                                  *)
(***************************************************************************)
C13_DrawImageChunks ==
    /\ Succeeded("draw_image") =>
          LET ws == Writes(ev)
              L == Len(op.b)
              n == (L + 31) \div 32
          IN  /\ Len(ws) = 7 + n
              /\ StreamFrom(SubSeq(ws, 1, 7), 1) =
                    Opcode(42) \o Data16(0 + dx) \o Data16(width - 1 + dx)
                    \o Opcode(43) \o Data16(0 + dy) \o Data16(height - 1 + dy)
                    \o Opcode(44)
              /\ \A k \in 1 .. n :
                    /\ ws[7 + k].dc = 1
                    /\ Len(ws[7 + k].d) = (IF k < n THEN 32 ELSE L - 32 * (n - 1))
                    /\ Len(ws[7 + k].d) \in 1 .. 32
                    /\ \A j \in 1 .. Len(ws[7 + k].d) :
                          ws[7 + k].d[j] = op.b[32 * (k - 1) + j]
    /\ (Ended("draw_image") /\ res = "err") => Failed(ev) # {}

C13_Witness ==
    /\ Succeeded("draw_image")
    /\ width = 17
    /\ height = 2
    /\ dx = 5
    /\ Len(op.b) > 68
    /\ Len(Writes(ev)) = 10

(***************************************************************************)
(* C14: with a buffer large enough for the whole panel, a successful       *)
(* show_region(buffer, x, y, w, h) sets the window (x, y, x+w-1, y+h-1)    *)
(* shifted by the offset, issues memory-write once, and for each row       *)
(* r = y .. y+h-1 in increasing order transmits exactly the buffer bytes   *)
(* at [(r*W + x)*2, (r*W + x)*2 + w*2), in bus writes of at most 32 bytes  *)
(* that never span two rows; the stride is the panel width W (x+w-1 and    *)
(* y+h-1 are 16-bit values).                                               *)
(***************************************************************************)
C14_ShowRegionRows ==
    (Succeeded("show_region") /\ Len(op.b) >= width * height * 2) =>
        LET ws == Writes(ev)
            x == op.a[1]
            y == op.a[2]
            w == op.a[3]
            h == op.a[4]
            last == (y + h - 1) % 65536
            rows == IF last < y THEN 0 ELSE last - y + 1
            c == (2 * w + 31) \div 32
            base(k) == ((y + k - 1) * width + x) * 2
        IN  /\ Len(ws) = 7 + rows * c
            /\ StreamFrom(SubSeq(ws, 1, 7), 1) =
                  Opcode(42) \o Data16(x + dx) \o Data16(x + w - 1 + dx)
                  \o Opcode(43) \o Data16(y + dy) \o Data16(y + h - 1 + dy)
                  \o Opcode(44)
            /\ Cardinality({i \in 1 .. Len(ws) : ws[i].v = 0}) = 3
            /\ \A k \in 1 .. rows : \A m \in 1 .. c :
                  LET d == ws[7 + (k - 1) * c + m].d
                      from == base(k) + 32 * (m - 1)
                      to == base(k) + Min(32 * m, 2 * w)
                  IN  /\ ws[7 + (k - 1) * c + m].dc = 1
                      /\ Len(d) \in 1 .. 32
                      /\ d = SubSeq(op.b, from + 1, to)

C14_Witness ==
    /\ Succeeded("show_region")
    /\ width = 17
    /\ height = 2
    /\ Len(op.b) = 68
    /\ op.a = <<1, 0, 1, 2>>
    /\ Len(Writes(ev)) = 9
    /\ Writes(ev)[8].d = <<85, 122>>
    /\ Writes(ev)[9].d = <<63, 100>>

(***************************************************************************)
(* C15: in every step of every run the offset (dx, dy) changes only in a   *)
(* call of set_offset, which stores exactly its arguments, and width,      *)
(* height and the color order never change; a call of set_offset always    *)
(* succeeds and drives no control line, writes nothing on the bus and      *)
(* requests no delay.                                                      *)
(***************************************************************************)
C15_OffsetFrame ==
    [][ /\ (dx' # dx \/ dy' # dy) => (pc' = "done" /\ op'.name = "set_offset")
        /\ (pc = "idle" /\ pc' = "done" /\ op'.name = "set_offset") =>
              /\ dx' = op'.a[1]
              /\ dy' = op'.a[2]
              /\ ev' = <<>>
              /\ res' = "ok"
              /\ <<cs', dc', rst'>> = <<cs, dc, rst>>
        /\ <<rgb', width', height'>> = <<rgb, width, height>> ]_vars

C15_Witness ==
    /\ Succeeded("set_offset")
    /\ op.a = <<5, 7>>
    /\ dx = 5
    /\ dy = 7
    /\ ev = <<>>

(***************************************************************************)
(* C16 as stated: the final three commands of a successful init are        *)
(* pixel-format set (0x3A), sleep-out (0x11) and display-on (0x29), and    *)
(* its last event is a request to delay 200 ms.                            *)
(***************************************************************************)
C16_FinalThree ==
    Succeeded("init") =>
        LET cmds == Commands(ev)
            n == Len(cmds)
        IN  /\ n >= 3
            /\ <<cmds[n - 2][1], cmds[n - 1][1], cmds[n][1]>> = <<58, 17, 41>>
            /\ ev[Len(ev)].k = "delay"
            /\ ev[Len(ev)].v = 200

(***************************************************************************)
(* C16 amended: a successful init issues pixel-format set (0x3A, parameter *)
(* 0x05) once, as its 20th command of 50; its final four commands are      *)
(* 0x35, 0x21, sleep-out (0x11) and display-on (0x29), in that order and   *)
(* without parameters, and its last event, the only one of its kind, is a  *)
(* request to delay 200 ms.                                                *)
(***************************************************************************)
C16_FinalCommands ==
    Succeeded("init") =>
        LET cmds == Commands(ev)
            n == Len(cmds)
        IN  /\ n = 50
            /\ {i \in 1 .. n : cmds[i][1] = 58} = {20}
            /\ cmds[20] = <<58, <<5>>>>
            /\ SubSeq(cmds, n - 3, n) =
                  << <<53, <<>>>>, <<33, <<>>>>, <<17, <<>>>>, <<41, <<>>>> >>
            /\ {i \in 1 .. Len(ev) : ev[i].k = "delay" /\ ev[i].v = 200} = {Len(ev)}

C16_Witness ==
    /\ Succeeded("init")
    /\ Commands(ev)[20][1] = 58
    /\ Commands(ev)[50][1] = 41
    /\ ev[Len(ev)].v = 200

(***************************************************************************)
(* C17: for every sequence of N 16-bit values a successful                 *)
(* write_words_buffered performs exactly N div 16 bus writes of exactly    *)
(* 32 bytes followed by exactly one final bus write of 2 * (N mod 16)      *)
(* bytes; each word is stored at an even index of at most 30, so no bus    *)
(* write is longer than 32 bytes and no store falls outside the buffer     *)
(* (no run of the operation panics).                                       *)
(***************************************************************************)
C17_BufferedFlushes ==
    Ended("write_words_buffered") =>
        LET ws == Writes(ev)
            N == Len(op.b)
            q == N \div 16
        IN  /\ res # "panic"
            /\ \A k \in 1 .. Len(ws) : Len(ws[k].d) <= 32
            /\ \A i \in 1 .. N :
                  index_after(i - 1) % 2 = 0 /\ index_after(i - 1) <= 30
            /\ res = "ok" =>
                  /\ Len(ws) = q + 1
                  /\ \A k \in 1 .. q : Len(ws[k].d) = 32
                  /\ Len(ws[q + 1].d) = 2 * (N % 16)
                  /\ Len(ws[q + 1].d) = index_after(N)

C17_Witness ==
    /\ Succeeded("write_words_buffered")
    /\ Len(op.b) = 32
    /\ Len(Writes(ev)) = 3
    /\ Len(Writes(ev)[2].d) = 32
    /\ Writes(ev)[3].d = <<>>

(***************************************************************************)
(* C18: in every call of a public operation, failed ones included, every   *)
(* bus write (a failing one too) is made while chip-select was last        *)
(* driven low; every opcode byte is written while the data/command line    *)
(* was last driven low, every parameter or pixel byte while it was last    *)
(* driven high.                                                            *)
(***************************************************************************)
C18_WriteLevels ==
    pc = "done" =>
        \A i \in 1 .. Len(ev) :
           ev[i].k = "spi" =>
              /\ ev[i].cs = 0
              /\ ev[i].v = 0 => (ev[i].dc = 0 /\ Len(ev[i].d) = 1)
              /\ ev[i].v = 1 => ev[i].dc = 1

C18_Witness ==
    /\ Ended("draw_image")
    /\ res = "err"
    /\ ev[Len(ev)].k = "spi"
    /\ ev[Len(ev)].v = 1
    /\ Len(ev[Len(ev)].d) = 32
    /\ ev[Len(ev)].dc = 1
    /\ ev[Len(ev)].cs = 0

\* The public operations that talk to the controller.
Talking ==
    {"init", "set_orientation", "set_address_window", "set_pixel", "write_pixels",
     "write_pixels_buffered", "set_pixels", "set_pixels_buffered", "draw_image",
     "show", "show_region"}

(***************************************************************************)
(* C19: whenever a public operation that talks to the controller returns   *)
(* success, chip-select was last driven high, for every argument, empty    *)
(* color sequences and buffers included; chip-select goes low across a     *)
(* call only when the call returns the transaction failure.                *)
(***************************************************************************)
C19_SelectReleased ==
    [][ /\ (pc' = "done" /\ res' = "ok" /\ op'.name \in Talking) => cs' = 1
        /\ (cs' = 0 /\ cs # 0) => (pc' = "done" /\ res' = "err") ]_vars

C19_Witness ==
    /\ Succeeded("write_pixels_buffered")
    /\ op.b = <<>>
    /\ Len(Writes(ev)) = 2
    /\ ev[Len(ev)].k = "cs"
    /\ cs = 1

\* The events of init from a driver whose lines have never been driven.
InitSequence == init([ev |-> <<>>, st |-> "ok", f |-> 0, cs |-> 2, dc |-> 2, rst |-> 2]).ev

(***************************************************************************)
(* C20: the event sequence of a failure-free init is the same from every   *)
(* reachable driver state: whatever the offset, the dimensions, the color  *)
(* order, the levels the lines were left at and the outcome of earlier     *)
(* calls, it is the sequence of an init on a freshly constructed driver.   *)
(***************************************************************************)
C20_InitReplay ==
    [][(pc' = "done" /\ op'.name = "init" /\ res' = "ok") => ev' = InitSequence]_vars

C20_Witness ==
    /\ Succeeded("init")
    /\ ev = InitSequence
    /\ dx = 5
    /\ dy = 7
    /\ ~rgb
    /\ width = 17

====
